---- MODULE Spec2Model ----
(***************************************************************************)
(* Model of pyv4l2/media.py: the construction of a MediaDevice (open,      *)
(* device info, two-phase topology read, object construction, _finalize    *)
(* pass, registration of the descriptor's finalizer), the link toggle      *)
(* MediaLink.enable / MediaLink.disable, and the release of the handle.    *)
(*                                                                         *)
(* An object reference is the 1-based position of the object in            *)
(* MediaDevice.objects; 0 stands for None.                                 *)
(***************************************************************************)
EXTENDS Integers, Sequences, FiniteSets, TLC

VARIABLES
    pc,         \* position of the caller in MediaDevice.__init__ / handle life
    fd,         \* "none" | "open" | "closed": the descriptor of self.fd
    closes,     \* number of os.close(self.fd) calls made so far
    finalizer,  \* TRUE once weakref.finalize(self, os.close, self.fd) ran
    counts,     \* num_* returned by the sizing MEDIA_IOC_G_TOPOLOGY call
    topology,   \* MediaTopology: num_* of the fill call and the four arrays
    objects,    \* MediaDevice.objects
    err,        \* the exception that ended __init__, "none" otherwise
    last,       \* the most recent enable()/disable() call and its outcome
    prev        \* the call before that one, kept while it is a successful enable()

vars == <<pc, fd, closes, finalizer, counts, topology, objects, err, last, prev>>

----------------------------------------------------------------------------
(* Bounds and the kernel's side of the ioctl interface.                    *)

\* Largest number of link records the kernel reports.
MaxLinks == 2

MEDIA_LNK_FL_ENABLED == 1
MEDIA_LNK_FL_IMMUTABLE == 2

\* Flag words a kernel link record may carry.
FlagWords ==
    { a + b : a \in {0, MEDIA_LNK_FL_ENABLED}, b \in {0, MEDIA_LNK_FL_IMMUTABLE} }

\* Ids are unique across the four kinds (kernel-assigned).
EntityIds == <<1, 2>>
InterfaceIds == <<11, 12>>
PadIds == <<21, 22>>
LinkId(k) == 30 + k
\* An id no object of a snapshot carries.
DanglingIds == {99}

KernelEntities == [i \in 1..Len(EntityIds) |-> [id |-> EntityIds[i]]]
KernelInterfaces == [i \in 1..Len(InterfaceIds) |-> [id |-> InterfaceIds[i]]]

\* The entity a pad record names: the first pad sits on the first entity,
\* every other pad on any entity or on an id that names nothing.
PadOwners ==
    { f \in [1..Len(PadIds) -> {EntityIds[i] : i \in 1..Len(EntityIds)} \cup DanglingIds] :
        f[1] = EntityIds[1] }

\* index: the position of the pad among the pads of its entity.
KernelPads(f) ==
    [k \in 1..Len(PadIds) |->
        [id |-> PadIds[k], entity_id |-> f[k],
         index |-> Cardinality({j \in 1..(k - 1) : f[j] = f[k]})]]

\* Endpoints of a link record: a data link between two pads, an interface
\* link from an interface to the first entity, an ancillary link between
\* the first two entities, or a link to a dangling id.
LinkEnds ==
    { <<PadIds[k], PadIds[k + 1]>> : k \in 1..(Len(PadIds) - 1) }
    \cup { <<InterfaceIds[i], EntityIds[1]>> : i \in 1..Len(InterfaceIds) }
    \cup { <<EntityIds[1], EntityIds[2]>> }
    \cup { <<PadIds[1], d>> : d \in DanglingIds }

KernelLinks(n) ==
    { [k \in 1..n |-> [id |-> LinkId(k), source_id |-> c[k][1][1],
                       sink_id |-> c[k][1][2], flags |-> c[k][2]]] :
        c \in [1..n -> LinkEnds \X FlagWords] }

\* The topologies the kernel may hold when the fill call is served.
Snapshots ==
    { [entities |-> KernelEntities, interfaces |-> KernelInterfaces,
       pads |-> KernelPads(f), links |-> ls] :
        f \in PadOwners, ls \in UNION { KernelLinks(n) : n \in 0..MaxLinks } }

\* A record of a ctypes array the kernel did not write.
ZeroLink == [id |-> 0, source_id |-> 0, sink_id |-> 0, flags |-> 0]

NoCounts == [num_entities |-> 0, num_interfaces |-> 0, num_pads |-> 0, num_links |-> 0]
NoTopology ==
    [num_entities |-> 0, num_interfaces |-> 0, num_pads |-> 0, num_links |-> 0,
     entities |-> <<>>, interfaces |-> <<>>, pads |-> <<>>, links |-> <<>>]
NoCall ==
    [op |-> "none", link |-> 0, result |-> "none", pre |-> 0, sent |-> <<>>,
     ioctl |-> "none"]

----------------------------------------------------------------------------
(* Object model: the wrappers and their constructors.                      *)

Wrapper(kind, id, entity_id, index, source_id, sink_id, flags) ==
    [kind |-> kind, id |-> id, entity_id |-> entity_id, index |-> index,
     source_id |-> source_id, sink_id |-> sink_id, flags |-> flags,
     links |-> <<>>, pads |-> <<>>, interface |-> 0, entity |-> 0,
     source |-> 0, sink |-> 0]

MediaEntity(e) == Wrapper("MediaEntity", e.id, 0, 0, 0, 0, 0)
MediaInterface(i) == Wrapper("MediaInterface", i.id, 0, 0, 0, 0, 0)
MediaPad(p) == Wrapper("MediaPad", p.id, p.entity_id, p.index, 0, 0, 0)
MediaLink(l) == Wrapper("MediaLink", l.id, 0, 0, l.source_id, l.sink_id, l.flags)

\* [o for o in self.objects if isinstance(o, kind)], as positions in order.
OfKind(objs, kind) ==
    SelectSeq([i \in 1..Len(objs) |-> i], LAMBDA i : objs[i].kind = kind)

\* (o for o in self.objects if o.id == id), as positions in order.
WithId(objs, id) ==
    SelectSeq([i \in 1..Len(objs) |-> i], LAMBDA i : objs[i].id = id)

MediaDevice_entities(objs) == OfKind(objs, "MediaEntity")
MediaDevice_pads(objs) == OfKind(objs, "MediaPad")
MediaDevice_links(objs) == OfKind(objs, "MediaLink")
MediaDevice_interfaces(objs) == OfKind(objs, "MediaInterface")

\* next((o for o in self.objects if o.id == id), None)
MediaDevice_find_id(objs, id) ==
    LET hits == WithId(objs, id)
    IN  IF Len(hits) = 0 THEN 0 ELSE hits[1]

----------------------------------------------------------------------------
(* Graph resolver: the _finalize methods.  Each returns the finalized      *)
(* object and the exception it raised ("none" when it returned).           *)

\* Variant of MediaObject_finalize: only source_id is compared.
MediaObject_finalize_SourceOnly(objs, i) ==
    [objs[i] EXCEPT !.links =
        SelectSeq(MediaDevice_links(objs),
                  LAMBDA l : objs[i].id = objs[l].source_id)]

\* MediaObject._finalize: self.links
MediaObject_finalize(objs, i) ==
    [objs[i] EXCEPT !.links =
        SelectSeq(MediaDevice_links(objs),
                  LAMBDA l : objs[i].id \in {objs[l].source_id, objs[l].sink_id})]

\* Variant of EntityPads: the entity_id test is lost.
EntityPads_Unfiltered(objs, id) == MediaDevice_pads(objs)

\* [p for p in self.md.pads if p.media_pad.entity_id == self.id]
EntityPads(objs, id) ==
    SelectSeq(MediaDevice_pads(objs), LAMBDA p : objs[p].entity_id = id)

\* The loop of MediaEntity._finalize over the endpoints of self.links.
RECURSIVE EntityIfaces(_, _)
EntityIfaces(objs, links) ==
    IF links = <<>> THEN <<>>
    ELSE LET l == objs[Head(links)]
             obs == <<MediaDevice_find_id(objs, l.source_id),
                      MediaDevice_find_id(objs, l.sink_id)>>
         IN  SelectSeq(obs, LAMBDA ob : ob # 0 /\ objs[ob].kind = "MediaInterface")
             \o EntityIfaces(objs, Tail(links))

\* Variant of MultipleInterfaces: the threshold is off by one.
MultipleInterfaces_OffByOne(ifaces) == Len(ifaces) > 2

\* if len(ifaces) > 1: raise RuntimeError('Multiple interfaces for entity')
MultipleInterfaces(ifaces) == Len(ifaces) > 1

MediaEntity_finalize(objs, i) ==
    LET o1 == MediaObject_finalize(objs, i)
        o2 == [o1 EXCEPT !.pads = EntityPads(objs, o1.id)]
        ifaces == EntityIfaces(objs, o2.links)
    IN  IF MultipleInterfaces(ifaces)
        THEN [obj |-> o2, err |-> "RuntimeError: Multiple interfaces for entity"]
        ELSE IF Len(ifaces) > 0
        THEN [obj |-> [o2 EXCEPT !.interface = ifaces[1]], err |-> "none"]
        ELSE [obj |-> o2, err |-> "none"]

MediaInterface_finalize(objs, i) ==
    [obj |-> MediaObject_finalize(objs, i), err |-> "none"]

\* next(e for e in self.md.entities if e.id == self.media_pad.entity_id)
PadEntity(objs, entity_id) ==
    SelectSeq(MediaDevice_entities(objs), LAMBDA e : objs[e].id = entity_id)

MediaPad_finalize(objs, i) ==
    LET o1 == MediaObject_finalize(objs, i)
        ents == PadEntity(objs, o1.entity_id)
    IN  IF Len(ents) = 0
        THEN [obj |-> o1, err |-> "StopIteration"]
        ELSE [obj |-> [o1 EXCEPT !.entity = ents[1]], err |-> "none"]

\* next(e for e in self.md.objects if e.id == id)
LinkEndpoint(objs, id) == WithId(objs, id)

\* Variant of MediaLink_finalize: next() is given a default of None, so a
\* missing endpoint raises nothing.
MediaLink_finalize_Default(objs, i) ==
    LET o1 == MediaObject_finalize(objs, i)
    IN  [obj |-> [o1 EXCEPT !.source = MediaDevice_find_id(objs, o1.source_id),
                            !.sink = MediaDevice_find_id(objs, o1.sink_id)],
         err |-> "none"]

MediaLink_finalize(objs, i) ==
    LET o1 == MediaObject_finalize(objs, i)
        srcs == LinkEndpoint(objs, o1.source_id)
        snks == LinkEndpoint(objs, o1.sink_id)
    IN  IF Len(srcs) = 0
        THEN [obj |-> o1, err |-> "StopIteration"]
        ELSE IF Len(snks) = 0
        THEN [obj |-> [o1 EXCEPT !.source = srcs[1]], err |-> "StopIteration"]
        ELSE [obj |-> [o1 EXCEPT !.source = srcs[1], !.sink = snks[1]], err |-> "none"]

\* Variant of Finalize: an exception raised by _finalize is caught and
\* dropped.
Finalize_NoRaise(objs, i) ==
    LET r == CASE objs[i].kind = "MediaEntity" -> MediaEntity_finalize(objs, i)
               [] objs[i].kind = "MediaInterface" -> MediaInterface_finalize(objs, i)
               [] objs[i].kind = "MediaPad" -> MediaPad_finalize(objs, i)
               [] objs[i].kind = "MediaLink" -> MediaLink_finalize(objs, i)
    IN  [obj |-> r.obj, err |-> "none"]

\* o._finalize(), dispatched on the class of o
Finalize(objs, i) ==
    CASE objs[i].kind = "MediaEntity" -> MediaEntity_finalize(objs, i)
      [] objs[i].kind = "MediaInterface" -> MediaInterface_finalize(objs, i)
      [] objs[i].kind = "MediaPad" -> MediaPad_finalize(objs, i)
      [] objs[i].kind = "MediaLink" -> MediaLink_finalize(objs, i)

\* for o in self.objects: o._finalize()  -- from object i on; the first
\* exception ends the loop and leaves the later objects as constructed.
RECURSIVE FinalizeFrom(_, _)
FinalizeFrom(objs, i) ==
    IF i > Len(objs) THEN [objects |-> objs, err |-> "none"]
    ELSE LET r == Finalize(objs, i)
             done == [objs EXCEPT ![i] = r.obj]
         IN  IF r.err # "none" THEN [objects |-> done, err |-> r.err]
             ELSE FinalizeFrom(done, i + 1)

\* The four list comprehensions of __read_topology.
BuildObjects(t) ==
    [i \in 1..Len(t.entities) |-> MediaEntity(t.entities[i])]
    \o [i \in 1..Len(t.interfaces) |-> MediaInterface(t.interfaces[i])]
    \o [i \in 1..Len(t.pads) |-> MediaPad(t.pads[i])]
    \o [i \in 1..Len(t.links) |-> MediaLink(t.links[i])]

\* The ctypes arrays after the fill call: sized by the sizing call's counts,
\* written by the kernel up to the number of records it holds, zero beyond.
FilledLinks(n, klinks) ==
    [k \in 1..n |-> IF k <= Len(klinks) THEN klinks[k] ELSE ZeroLink]

----------------------------------------------------------------------------
(* Link controller.                                                        *)

\* Variant of IsMediaPad: the class of the endpoint is not looked at.
IsMediaPad_AnyObject(objs, o) == o # 0

\* isinstance(o, MediaPad)
IsMediaPad(objs, o) == o # 0 /\ objs[o].kind = "MediaPad"

\* The typed views; 0 stands for the RuntimeError they raise.
MediaLink_source_pad(objs, l) ==
    IF IsMediaPad(objs, objs[l].source) THEN objs[l].source ELSE 0
MediaLink_sink_pad(objs, l) ==
    IF IsMediaPad(objs, objs[l].sink) THEN objs[l].sink ELSE 0

\* pad.entity.id
PadEntityId(objs, p) ==
    IF p = 0 \/ objs[p].entity = 0 THEN 0 ELSE objs[objs[p].entity].id

\* Variant of LinkDesc: source and sink are swapped.
LinkDesc_Swapped(objs, sp, kp, flags) ==
    [source |-> [entity |-> PadEntityId(objs, kp), index |-> objs[kp].index],
     sink |-> [entity |-> PadEntityId(objs, sp), index |-> objs[sp].index],
     flags |-> flags]

\* The media_link_desc filled by _setup.
LinkDesc(objs, sp, kp, flags) ==
    [source |-> [entity |-> PadEntityId(objs, sp), index |-> objs[sp].index],
     sink |-> [entity |-> PadEntityId(objs, kp), index |-> objs[kp].index],
     flags |-> flags]

\* Variant of MediaLink_setup: self.flags is assigned before the ioctl.
MediaLink_setup_StoreFirst(objs, l, flags, ioctlOk) ==
    LET sp == MediaLink_source_pad(objs, l)
        kp == MediaLink_sink_pad(objs, l)
    IN  IF sp = 0
        THEN [objects |-> objs, sent |-> <<>>,
              result |-> "RuntimeError: Source is not a MediaPad"]
        ELSE IF kp = 0
        THEN [objects |-> objs, sent |-> <<>>,
              result |-> "RuntimeError: Sink is not a MediaPad"]
        ELSE [objects |-> [objs EXCEPT ![l].flags = flags],
              sent |-> <<LinkDesc(objs, sp, kp, flags)>>,
              result |-> IF ioctlOk THEN "ok" ELSE "OSError"]

\* Variant of MediaLink_setup: the flags are stored in every link of the
\* device, not in self.
MediaLink_setup_EveryLink(objs, l, flags, ioctlOk) ==
    LET sp == MediaLink_source_pad(objs, l)
        kp == MediaLink_sink_pad(objs, l)
    IN  IF sp = 0
        THEN [objects |-> objs, sent |-> <<>>,
              result |-> "RuntimeError: Source is not a MediaPad"]
        ELSE IF kp = 0
        THEN [objects |-> objs, sent |-> <<>>,
              result |-> "RuntimeError: Sink is not a MediaPad"]
        ELSE IF ~ioctlOk
        THEN [objects |-> objs, sent |-> <<LinkDesc(objs, sp, kp, flags)>>,
              result |-> "OSError"]
        ELSE [objects |->
                [o \in 1..Len(objs) |->
                    IF objs[o].kind = "MediaLink"
                    THEN [objs[o] EXCEPT !.flags = flags] ELSE objs[o]],
              sent |-> <<LinkDesc(objs, sp, kp, flags)>>, result |-> "ok"]

\* MediaLink._setup; ioctlOk is the outcome of MEDIA_IOC_SETUP_LINK.
MediaLink_setup(objs, l, flags, ioctlOk) ==
    LET sp == MediaLink_source_pad(objs, l)
        kp == MediaLink_sink_pad(objs, l)
    IN  IF sp = 0
        THEN [objects |-> objs, sent |-> <<>>,
              result |-> "RuntimeError: Source is not a MediaPad"]
        ELSE IF kp = 0
        THEN [objects |-> objs, sent |-> <<>>,
              result |-> "RuntimeError: Sink is not a MediaPad"]
        ELSE IF ~ioctlOk
        THEN [objects |-> objs, sent |-> <<LinkDesc(objs, sp, kp, flags)>>,
              result |-> "OSError"]
        ELSE [objects |-> [objs EXCEPT ![l].flags = flags],
              sent |-> <<LinkDesc(objs, sp, kp, flags)>>, result |-> "ok"]

MediaLink_enable(objs, l, ioctlOk) ==
    MediaLink_setup(objs, l, MEDIA_LNK_FL_ENABLED, ioctlOk)
\* Variant of MediaLink_disable: it passes the enabled bit, as enable() does.
MediaLink_disable_Enabled(objs, l, ioctlOk) ==
    MediaLink_setup(objs, l, MEDIA_LNK_FL_ENABLED, ioctlOk)

MediaLink_disable(objs, l, ioctlOk) ==
    MediaLink_setup(objs, l, 0, ioctlOk)

MediaLink_is_enabled(o) == (o.flags \div MEDIA_LNK_FL_ENABLED) % 2 = 1
MediaLink_is_immutable(o) == (o.flags \div MEDIA_LNK_FL_IMMUTABLE) % 2 = 1

RECURSIVE ConcatLinks(_, _)
ConcatLinks(objs, pads) ==
    IF pads = <<>> THEN <<>>
    ELSE objs[Head(pads)].links \o ConcatLinks(objs, Tail(pads))

\* Variant of MediaEntity_pad_links: every link is listed once.
MediaEntity_pad_links_Once(objs, e) ==
    SelectSeq(MediaDevice_links(objs),
              LAMBDA l : \E k \in 1..Len(objs[e].pads) :
                            \E j \in 1..Len(objs[objs[e].pads[k]].links) :
                                objs[objs[e].pads[k]].links[j] = l)

\* MediaEntity.pad_links: [l for p in self.pads for l in p.links]
MediaEntity_pad_links(objs, e) == ConcatLinks(objs, objs[e].pads)

----------------------------------------------------------------------------
(* MediaDevice.__init__, step by step.                                     *)

Init ==
    /\ pc = "start"
    /\ fd = "none"
    /\ closes = 0
    /\ finalizer = FALSE
    /\ counts = NoCounts
    /\ topology = NoTopology
    /\ objects = <<>>
    /\ err = "none"
    /\ last = NoCall
    /\ prev = NoCall

\* An exception leaves __init__: nothing runs after it.
Raise(e) ==
    /\ pc' = "failed"
    /\ err' = e

\* self.fd = os.open(name, os.O_RDWR | os.O_NONBLOCK)
Open ==
    /\ pc = "start"
    /\ \E ok \in BOOLEAN :
        IF ok THEN /\ fd' = "open"
                   /\ pc' = "opened"
                   /\ UNCHANGED err
              ELSE /\ Raise("OSError")
                   /\ UNCHANGED fd
    /\ UNCHANGED <<closes, finalizer, counts, topology, objects, last, prev>>

\* self.__read_device_info()
ReadDeviceInfo ==
    /\ pc = "opened"
    /\ \E ok \in BOOLEAN :
        IF ok THEN pc' = "info" /\ UNCHANGED err
              ELSE Raise("OSError")
    /\ UNCHANGED <<fd, closes, finalizer, counts, topology, objects, last, prev>>

\* __read_topology, the sizing call: the kernel reports its counts.
ReadTopologySize ==
    /\ pc = "info"
    /\ \/ \E n \in 0..MaxLinks :
            /\ counts' = [num_entities |-> Len(KernelEntities),
                          num_interfaces |-> Len(KernelInterfaces),
                          num_pads |-> Len(PadIds),
                          num_links |-> n]
            /\ pc' = "sized"
            /\ UNCHANGED err
       \/ Raise("OSError") /\ UNCHANGED counts
    /\ UNCHANGED <<fd, closes, finalizer, topology, objects, last, prev>>

\* __read_topology, the fill call into arrays of the sizing call's lengths.
\* The kernel serves it from the topology k it holds now: it fails with
\* ENOSPC when k has more records than the arrays, and otherwise writes k's
\* records and k's counts.
ReadTopologyFill ==
    /\ pc = "sized"
    /\ \/ \E k \in Snapshots :
            IF Len(k.links) > counts.num_links
            THEN Raise("OSError") /\ UNCHANGED topology
            ELSE /\ topology' =
                      [num_entities |-> Len(k.entities),
                       num_interfaces |-> Len(k.interfaces),
                       num_pads |-> Len(k.pads),
                       num_links |-> Len(k.links),
                       entities |-> k.entities,
                       interfaces |-> k.interfaces,
                       pads |-> k.pads,
                       links |-> FilledLinks(counts.num_links, k.links)]
                 /\ pc' = "filled"
                 /\ UNCHANGED err
       \/ Raise("OSError") /\ UNCHANGED topology
    /\ UNCHANGED <<fd, closes, finalizer, counts, objects, last, prev>>

\* __read_topology, self.objects = ...: every wrapper is constructed.
\* MediaInterface.__init__ calls filepath_for_major_minor, which raises
\* when the device node of an interface cannot be found.
Construct ==
    /\ pc = "filled"
    /\ \/ /\ objects' = BuildObjects(topology)
          /\ pc' = "built"
          /\ UNCHANGED err
       \/ /\ Len(topology.interfaces) > 0
          /\ Raise("RuntimeError: No device-node found")
          /\ UNCHANGED objects
    /\ UNCHANGED <<fd, closes, finalizer, counts, topology, last, prev>>

\* __read_topology, the _finalize loop.
Resolve ==
    /\ pc = "built"
    /\ LET r == FinalizeFrom(objects, 1)
       IN  /\ objects' = r.objects
           /\ IF r.err = "none" THEN pc' = "resolved" /\ UNCHANGED err
                                ELSE Raise(r.err)
    /\ UNCHANGED <<fd, closes, finalizer, counts, topology, last, prev>>

\* weakref.finalize(self, os.close, self.fd): __init__ returns the handle.
RegisterFinalizer ==
    /\ pc = "resolved"
    /\ finalizer' = TRUE
    /\ pc' = "ready"
    /\ UNCHANGED <<fd, closes, counts, topology, objects, err, last, prev>>

----------------------------------------------------------------------------
(* Operations on the constructed handle.                                   *)

\* A call of op on link l; ok is what MEDIA_IOC_SETUP_LINK answers if the
\* call gets to issue it.
Call(op, l, ok, r) ==
    /\ objects' = r.objects
    /\ last' = [op |-> op, link |-> l, result |-> r.result,
                pre |-> objects[l].flags, sent |-> r.sent,
                ioctl |-> IF r.sent = <<>> THEN "none"
                          ELSE IF ok THEN "ok" ELSE "error"]
    /\ prev' = IF last.op = "enable" /\ last.result = "ok" THEN last ELSE NoCall
    /\ UNCHANGED <<pc, fd, closes, finalizer, counts, topology, err>>

Enable ==
    /\ pc = "ready"
    /\ \E l \in 1..Len(objects), ok \in BOOLEAN :
        /\ objects[l].kind = "MediaLink"
        /\ Call("enable", l, ok, MediaLink_enable(objects, l, ok))

Disable ==
    /\ pc = "ready"
    /\ \E l \in 1..Len(objects), ok \in BOOLEAN :
        /\ objects[l].kind = "MediaLink"
        /\ Call("disable", l, ok, MediaLink_disable(objects, l, ok))

\* The handle is collected: the finalizer closes the descriptor, once, and
\* the graph is gone with the handle.
Release ==
    /\ pc = "ready"
    /\ finalizer
    /\ fd' = "closed"
    /\ closes' = closes + 1
    /\ finalizer' = FALSE
    /\ pc' = "released"
    /\ objects' = <<>>
    /\ topology' = NoTopology
    /\ counts' = NoCounts
    /\ last' = NoCall
    /\ prev' = NoCall
    /\ UNCHANGED err

Next ==
    \/ Open
    \/ ReadDeviceInfo
    \/ ReadTopologySize
    \/ ReadTopologyFill
    \/ Construct
    \/ Resolve
    \/ RegisterFinalizer
    \/ Enable
    \/ Disable
    \/ Release

Spec == Init /\ [][Next]_vars

----------------------------------------------------------------------------
(* Vocabulary of the properties: the snapshot as the kernel wrote it.      *)

Range(s) == { s[i] : i \in 1..Len(s) }
Count(s, x) == Cardinality({ i \in 1..Len(s) : s[i] = x })

RawEntityIds == { e.id : e \in Range(topology.entities) }
RawInterfaceIds == { i.id : i \in Range(topology.interfaces) }
RawPadIds == { p.id : p \in Range(topology.pads) }
RawLinkIds == { l.id : l \in Range(topology.links) }
RawIds == RawEntityIds \cup RawInterfaceIds \cup RawPadIds \cup RawLinkIds

Entities == { i \in 1..Len(objects) : objects[i].kind = "MediaEntity" }
Interfaces == { i \in 1..Len(objects) : objects[i].kind = "MediaInterface" }
Pads == { i \in 1..Len(objects) : objects[i].kind = "MediaPad" }
Links == { i \in 1..Len(objects) : objects[i].kind = "MediaLink" }

\* The _finalize loop ran to its end, and ran it without an exception.
Resolved == pc \in {"resolved", "ready"}
\* The _finalize loop ran, to its end or to an exception.
ResolutionRan == Len(objects) > 0 /\ pc \in {"resolved", "ready", "failed"}

\* Link l joins two pads, going by the ids of its record.
PadToPad(l) ==
    objects[l].source_id \in RawPadIds /\ objects[l].sink_id \in RawPadIds

\* The pad records of entity id eid that are an endpoint of link l.
EndpointsAt(l, eid) ==
    { p \in Range(topology.pads) :
        p.entity_id = eid /\ p.id \in {objects[l].source_id, objects[l].sink_id} }

\* The ids of the interfaces that links incident to entity id eid reach.
ReachedInterfaces(eid) ==
    { i \in RawInterfaceIds :
        \E l \in Range(topology.links) :
            /\ eid \in {l.source_id, l.sink_id}
            /\ i \in {l.source_id, l.sink_id} }

\* Two setup-link descriptors that differ in the enabled bit and in nothing else.
DifferOnlyInEnabledBit(d1, d2) ==
    /\ d1.source = d2.source
    /\ d1.sink = d2.sink
    /\ d1.flags \div (2 * MEDIA_LNK_FL_ENABLED) = d2.flags \div (2 * MEDIA_LNK_FL_ENABLED)
    /\ d1.flags % 2 # d2.flags % 2

\* The last two calls are a successful enable() and then a successful
\* disable() of the same link.
RoundTrip ==
    /\ prev.op = "enable" /\ prev.result = "ok"
    /\ last.op = "disable" /\ last.result = "ok"
    /\ last.link = prev.link

----------------------------------------------------------------------------
(* Properties.                                                             *)

\* C1 (as stated): after a successful enable() followed by a successful
\* disable() of a link, the link's flags equal their value before the
\* enable(), and the two descriptors sent differ only in the enabled bit.
C1_RoundTripRestoresFlags ==
    RoundTrip =>
        /\ objects[last.link].flags = prev.pre
        /\ DifferOnlyInEnabledBit(prev.sent[1], last.sent[1])

\* C1 (amended): after a successful enable() followed by a successful
\* disable() of a link, the link's flags are 0 whatever they were before
\* the enable() -- so they equal the earlier value exactly when that was 0 --
\* and the two descriptors sent differ only in the enabled bit.
C1_RoundTripClearsFlags ==
    RoundTrip =>
        /\ objects[last.link].flags = 0
        /\ (objects[last.link].flags = prev.pre) <=> (prev.pre = 0)
        /\ Len(prev.sent) = 1 /\ Len(last.sent) = 1
        /\ DifferOnlyInEnabledBit(prev.sent[1], last.sent[1])

\* A round trip of a link that had flag bits set before the enable().
C1_Witness == RoundTrip /\ prev.pre # 0

\* C2: when the setup-link ioctl of enable() or disable() fails, the call
\* fails with the kernel's error and the link's flags, is_enabled and
\* is_immutable are what they were before the call.
C2_FailedIoctlKeepsFlags ==
    last.ioctl = "error" =>
        /\ last.result = "OSError"
        /\ objects[last.link].flags = last.pre
        /\ MediaLink_is_enabled(objects[last.link])
             = ((last.pre \div MEDIA_LNK_FL_ENABLED) % 2 = 1)
        /\ MediaLink_is_immutable(objects[last.link])
             = ((last.pre \div MEDIA_LNK_FL_IMMUTABLE) % 2 = 1)

\* A failed enable() of a link that was disabled and immutable.
C2_Witness ==
    /\ last.ioctl = "error" /\ last.op = "enable"
    /\ last.pre = MEDIA_LNK_FL_IMMUTABLE

\* C3: enable() or disable() of a link whose source or sink is not a pad
\* fails with a type-mismatch error, issues no ioctl and leaves the link's
\* flags unchanged.
C3_NonPadLinkRejected ==
    (last.op # "none" /\ ~PadToPad(last.link)) =>
        /\ last.result \in {"RuntimeError: Source is not a MediaPad",
                            "RuntimeError: Sink is not a MediaPad"}
        /\ last.sent = <<>>
        /\ last.ioctl = "none"
        /\ objects[last.link].flags = last.pre

\* enable() of an interface link whose flags have the enabled bit clear.
C3_Witness ==
    /\ last.op = "enable"
    /\ objects[last.link].source_id \in RawInterfaceIds
    /\ last.pre % 2 = 0
    /\ last.result = "RuntimeError: Source is not a MediaPad"

\* C4: a successful enable() or disable() issues exactly one setup-link
\* ioctl; its descriptor names the entity id and index of the source pad and
\* of the sink pad, its flags word is the enabled bit for enable() and 0 for
\* disable(), and the link's flags afterwards equal that word.
C4_SetupDescriptor ==
    last.result = "ok" =>
        /\ Len(last.sent) = 1
        /\ last.ioctl = "ok"
        /\ \E sp \in Range(topology.pads), kp \in Range(topology.pads) :
            /\ sp.id = objects[last.link].source_id
            /\ kp.id = objects[last.link].sink_id
            /\ last.sent[1].source = [entity |-> sp.entity_id, index |-> sp.index]
            /\ last.sent[1].sink = [entity |-> kp.entity_id, index |-> kp.index]
        /\ last.sent[1].flags =
             (IF last.op = "enable" THEN MEDIA_LNK_FL_ENABLED ELSE 0)
        /\ objects[last.link].flags = last.sent[1].flags

\* A successful enable() of an immutable link between pads of two entities.
C4_Witness ==
    /\ last.result = "ok" /\ last.op = "enable"
    /\ last.pre >= MEDIA_LNK_FL_IMMUTABLE
    /\ last.sent[1].source.entity # last.sent[1].sink.entity

\* C5: when the counts returned by the fill call differ from those of the
\* sizing call, the reader fails and no graph is built from the data.
C5_CountMismatchIsAnError ==
    (topology # NoTopology /\ topology.num_links # counts.num_links) =>
        /\ Len(objects) = 0
        /\ pc \notin {"built", "resolved", "ready"}

\* C6: the descriptor opened by the constructor is never closed twice and
\* is closed on every exit path, a failed construction included.
C6_DescriptorClosedOnce ==
    /\ closes <= 1
    /\ pc = "failed" => fd # "open"
    /\ pc = "released" => (fd = "closed" /\ closes = 1)

\* C7: links incident to one entity that reach two or more interfaces make
\* resolution fail; in a resolved graph every entity reaches at most one
\* interface, has that interface as its interface, and has no interface
\* when it reaches none.
C7_AtMostOneInterface ==
    ResolutionRan =>
        \A e \in Entities :
            LET reached == ReachedInterfaces(objects[e].id)
            IN  /\ Cardinality(reached) >= 2 =>
                     (pc = "failed"
                      /\ err = "RuntimeError: Multiple interfaces for entity")
                /\ Resolved =>
                     /\ Cardinality(reached) <= 1
                     /\ (reached = {}) <=> (objects[e].interface = 0)
                     /\ objects[e].interface # 0 =>
                          /\ objects[e].interface \in Interfaces
                          /\ objects[objects[e].interface].id \in reached

\* A resolved graph with an entity that has an interface and an entity that
\* has an incident link and no interface.
C7_Witness ==
    /\ Resolved
    /\ \E e \in Entities : objects[e].interface # 0
    /\ \E e \in Entities : objects[e].interface = 0 /\ objects[e].links # <<>>

\* C8: a pad whose entity_id matches no entity, or a link whose source_id or
\* sink_id matches no object, makes resolution fail; in a resolved graph the
\* source and sink of every link are objects of the graph with the link's
\* source_id and sink_id.
C8_ReferencesResolve ==
    ResolutionRan =>
        /\ (\E p \in Range(topology.pads) : p.entity_id \notin RawEntityIds)
             => pc = "failed"
        /\ (\E l \in Range(topology.links) :
                l.source_id \notin RawIds \/ l.sink_id \notin RawIds)
             => pc = "failed"
        /\ Resolved =>
             \A l \in Links :
                /\ objects[l].source \in 1..Len(objects)
                /\ objects[l].sink \in 1..Len(objects)
                /\ objects[objects[l].source].id = objects[l].source_id
                /\ objects[objects[l].sink].id = objects[l].sink_id

\* Resolution failed on a link to an id that names nothing, every pad naming
\* an entity of the snapshot.
C8_Witness ==
    /\ ResolutionRan /\ pc = "failed" /\ err = "StopIteration"
    /\ \A p \in Range(topology.pads) : p.entity_id \in RawEntityIds
    /\ \E l \in Range(topology.links) : l.sink_id \notin RawIds

\* C9: in a resolved graph every pad has an owning entity whose id is the
\* pad's entity_id, that entity's pads list holds the pad exactly once, and
\* no other entity's pads list holds it.
C9_PadOwnership ==
    Resolved =>
        \A p \in Pads :
            /\ objects[p].entity \in Entities
            /\ objects[objects[p].entity].id = objects[p].entity_id
            /\ Count(objects[objects[p].entity].pads, p) = 1
            /\ \A e \in Entities \ {objects[p].entity} :
                 Count(objects[e].pads, p) = 0

\* A resolved graph with an entity that owns two pads and one that owns none.
C9_Witness ==
    /\ Resolved
    /\ \E e \in Entities : Len(objects[e].pads) = 2
    /\ \E e \in Entities : Len(objects[e].pads) = 0

\* The entity of the source pad and of the sink pad of every pad-to-pad
\* link is the entity the pad's record names.
LinkPadEntities ==
    \A l \in Links :
        PadToPad(l) =>
            LET sp == MediaLink_source_pad(objects, l)
                kp == MediaLink_sink_pad(objects, l)
            IN  /\ sp \in Pads /\ kp \in Pads
                /\ objects[sp].id = objects[l].source_id
                /\ objects[kp].id = objects[l].sink_id
                /\ objects[sp].entity \in Entities
                /\ objects[kp].entity \in Entities
                /\ objects[objects[sp].entity].id = objects[sp].entity_id
                /\ objects[objects[kp].entity].id = objects[kp].entity_id

\* C10 (as stated): in a resolved graph the entity of a pad-to-pad link's
\* source pad and sink pad is the entity owning that pad, and every
\* entity's pad_links lists each link with an endpoint at one of the
\* entity's pads exactly once and no other link.
C10_PadLinksListEachLinkOnce ==
    Resolved =>
        /\ LinkPadEntities
        /\ \A e \in Entities : \A l \in Links :
             Count(MediaEntity_pad_links(objects, e), l) =
                 (IF EndpointsAt(l, objects[e].id) # {} THEN 1 ELSE 0)

\* C10 (amended): in a resolved graph the entity of a pad-to-pad link's
\* source pad and sink pad is the entity owning that pad, and every
\* entity's pad_links lists each link once for every pad of the entity that
\* is an endpoint of the link -- twice when the link joins two pads of that
\* entity -- and lists no other link.
C10_PadLinksListEachLinkPerPad ==
    Resolved =>
        /\ LinkPadEntities
        /\ \A e \in Entities :
            /\ \A l \in Links :
                 Count(MediaEntity_pad_links(objects, e), l) =
                     Cardinality(EndpointsAt(l, objects[e].id))
            /\ Range(MediaEntity_pad_links(objects, e)) \subseteq Links

\* A resolved graph in which a link joins two pads of one entity.
C10_Witness ==
    /\ Resolved
    /\ \E e \in Entities : \E l \in Links :
         Count(MediaEntity_pad_links(objects, e), l) = 2

\* The position in objects of the wrapper of the k-th link record.
LinkObject(k) ==
    Len(topology.entities) + Len(topology.interfaces) + Len(topology.pads) + k

\* C11: after resolution the links list of every object, of any kind, holds
\* exactly the links of the snapshot's link sequence whose source_id or
\* sink_id is the object's id, each once, in the order of that sequence.
C11_IncidentLinks ==
    Resolved =>
        /\ \A k \in 1..Len(topology.links) :
             /\ objects[LinkObject(k)].kind = "MediaLink"
             /\ objects[LinkObject(k)].id = topology.links[k].id
        /\ \A o \in 1..Len(objects) :
             /\ Range(objects[o].links) =
                  { LinkObject(k) : k \in
                      { j \in 1..Len(topology.links) :
                          objects[o].id \in {topology.links[j].source_id,
                                             topology.links[j].sink_id} } }
             /\ \A a, b \in 1..Len(objects[o].links) :
                  a < b => objects[o].links[a] < objects[o].links[b]

\* A resolved graph in which an object is the sink of the first link and the
\* source of the second, and another object is an endpoint of the second only.
C11_Witness ==
    /\ Resolved
    /\ Len(topology.links) = 2
    /\ \E o \in 1..Len(objects) :
         /\ objects[o].links = <<LinkObject(1), LinkObject(2)>>
         /\ objects[o].id = topology.links[1].sink_id
         /\ objects[o].id = topology.links[2].source_id
    /\ \E o \in 1..Len(objects) : objects[o].links = <<LinkObject(2)>>

\* No cross-reference of object o is populated.
Unresolved(o) ==
    /\ objects[o].links = <<>> /\ objects[o].pads = <<>>
    /\ objects[o].interface = 0 /\ objects[o].entity = 0
    /\ objects[o].source = 0 /\ objects[o].sink = 0

\* Every record of the four arrays has its wrapper.
AllConstructed ==
    Len(objects) = Len(topology.entities) + Len(topology.interfaces)
                   + Len(topology.pads) + Len(topology.links)

\* The cross-references of object o that _finalize always sets are set.
FullyResolved(o) ==
    /\ objects[o].kind = "MediaPad" => objects[o].entity \in Entities
    /\ objects[o].kind = "MediaLink" =>
         /\ objects[o].source \in 1..Len(objects)
         /\ objects[o].sink \in 1..Len(objects)
    /\ objects[o].kind = "MediaEntity" =>
         \A p \in Pads : objects[p].entity_id = objects[o].id
                            => Count(objects[o].pads, p) = 1
    /\ \A l \in Links :
         objects[o].id \in {objects[l].source_id, objects[l].sink_id}
            => Count(objects[o].links, l) = 1

\* The caller holds the handle: __init__ returned it.
Exposed == pc = "ready"

\* C12: every wrapper is constructed, with no cross-reference populated,
\* before any cross-reference is computed; the caller holds a handle only
\* when every object has been resolved; when a resolution step fails,
\* construction fails and no handle is ever held.
C12_TwoPhaseAllOrNothing ==
    /\ pc = "built" => (AllConstructed /\ \A o \in 1..Len(objects) : Unresolved(o))
    /\ (\E o \in 1..Len(objects) : ~Unresolved(o)) => AllConstructed
    /\ Exposed =>
         /\ err = "none"
         /\ AllConstructed
         /\ \A o \in 1..Len(objects) : FullyResolved(o)
    /\ (\E o \in 1..Len(objects) : ~FullyResolved(o)) => ~Exposed
    /\ err # "none" =>
         /\ pc = "failed"
         /\ ~finalizer
         /\ last = NoCall

\* Resolution failed part-way: some objects are resolved, a link is not, and
\* construction has failed.
C12_Witness ==
    /\ pc = "failed"
    /\ \E o \in 1..Len(objects) : objects[o].links # <<>>
    /\ \E l \in Links : objects[l].source = 0 /\ objects[l].source_id # 0

\* Object o without its flags.
Structure(objs, o) == [objs[o] EXCEPT !.flags = 0]

\* C13: a call of enable() or disable(), successful or failed, changes
\* nothing but the flags of the link it is called on: the objects, their
\* ids, incident links, owning entities, pads, interfaces, sources and
\* sinks, the flags of every other link and the snapshot stay as they are,
\* and the handle stays resolved.
C13_ToggleFrame ==
    [][ (pc = "ready" /\ pc' = "ready") =>
            /\ Len(objects') = Len(objects)
            /\ topology' = topology
            /\ counts' = counts
            /\ err' = err /\ fd' = fd
            /\ \A o \in 1..Len(objects) :
                 IF o = last'.link
                 THEN Structure(objects', o) = Structure(objects, o)
                 ELSE objects'[o] = objects[o] ]_vars

\* After a successful call that changed the flags of its link, another link
\* of the graph carries flags the call did not ask for.
C13_Witness ==
    /\ pc = "ready"
    /\ last.result = "ok"
    /\ objects[last.link].flags # last.pre
    /\ \E l \in Links \ {last.link} :
         objects[l].flags # objects[last.link].flags

\* C14: resolution fails with the multiple-interfaces error only when some
\* entity reaches two or more distinct interfaces; an entity whose incident
\* links all reach one and the same interface resolves with that interface.
C14_OnlyDistinctInterfacesFail ==
    ResolutionRan =>
        (err = "RuntimeError: Multiple interfaces for entity" =>
            \E e \in Entities : Cardinality(ReachedInterfaces(objects[e].id)) >= 2)

====
